---- MODULE Spec2Model ----
(***************************************************************************)
(* Model of the preDuckit lambda handlers:                                 *)
(*   MatchQueryHandler  = ExternalAPIFetcher.lambda_handler                *)
(*   ContractInvoker    = SmartContractInteractor.lambda_handler           *)
(*   ChatRelay          = lambda_function.lambda_handler                   *)
(*   AgentTrigger       = dailyMarketCreatorTrigger.lambda_handler         *)
(* One invocation of one handler is modelled: the platform delivers an     *)
(* event, the handler runs step by step, every outbound call and every     *)
(* sleep is appended to log, and the invocation ends either with a         *)
(* returned response or with an exception leaving the handler.             *)
(***************************************************************************)
EXTENDS Integers, Sequences, FiniteSets, TLC

VARIABLES handler, pc, event, today, mq, ci, cr, log, response

vars == <<handler, pc, event, today, mq, ci, cr, log, response>>

(***************************************************************************)
(* Bounds of the model.                                                    *)
(***************************************************************************)
MaxMatches == 2
MaxRoster == 2
MaxParams == 2
MaxChunks == 2

(***************************************************************************)
(* Values shared by the handlers.                                          *)
(***************************************************************************)
ABSENT == "<absent>"
NoResponse == [kind |-> "none"]
Raised == [kind |-> "raise"]

RECURSIVE SeqsUpTo(_, _)
SeqsUpTo(S, n) ==
    IF n = 0 THEN {<<>>}
    ELSE LET shorter == SeqsUpTo(S, n - 1)
         IN  shorter \cup {Append(s, e) : s \in {t \in shorter : Len(t) = n - 1}, e \in S}

(***************************************************************************)
(* MatchQueryHandler: src/lambda functions/ExternalAPIFetcher.py           *)
(***************************************************************************)
\* range(3), line 88
MaxAttemptsOneMore == 3 + 1
MaxAttempts == 3
ScheduledAhead == 5
FinishedBack == 7

\* Date strings: a well-formed YYYY-MM-DD string is the day it denotes,
\* any other string is junk, a key that is not in the event is absent.
DateStr(n) == [k |-> "date", d |-> n]
JunkDate == [k |-> "junk", d |-> 0]
AbsentDate == [k |-> "absent", d |-> 0]

\* current_date.strftime('%Y-%m-%d') and (current_date +- timedelta(days=n))
strftime(day) == DateStr(day)

\* datetime.strptime(s, '%Y-%m-%d') raises ValueError unless s is a date string
strptimeOk(s) == s.k = "date"

SuppliedDays == {3}
Todays == {10, 11}
EventDates == {AbsentDate, JunkDate} \cup {DateStr(n) : n \in SuppliedDays}
EventStatuses == {ABSENT, "SCHEDULED", "FINISHED", "LIVE"}
EventTeams == {ABSENT, "", "arsenal", "Arsenallll"}

\* extra: the event carries a key the handler does not read; it only matters
\* to `not event`, so it is varied on the event without any other key
MQEvents ==
    [status : EventStatuses, date_from : EventDates, date_to : EventDates,
     team : EventTeams, extra : {FALSE}]
    \cup {[status |-> ABSENT, date_from |-> AbsentDate, date_to |-> AbsentDate,
           team |-> ABSENT, extra |-> TRUE]}

\* `not event`: the dict has no key at all
EventEmptyKnownKeys(ev) ==
    /\ ev.status = ABSENT
    /\ ev.date_from = AbsentDate
    /\ ev.date_to = AbsentDate
    /\ ev.team = ABSENT
EventEmpty(ev) ==
    /\ ev.status = ABSENT
    /\ ev.date_from = AbsentDate
    /\ ev.date_to = AbsentDate
    /\ ev.team = ABSENT
    /\ ~ev.extra

\* event.get(key, default)
GetStr(v, default) == IF v = ABSENT THEN default ELSE v
GetDate(v, default) == IF v = AbsentDate THEN default ELSE v

\* status not in ['SCHEDULED', 'FINISHED']
ValidStatus(s) == s \in {"SCHEDULED", "FINISHED"}

\* default window, lines 36-45
DateFromAhead(ev, status, now) ==
    IF status = "SCHEDULED"
    THEN GetDate(ev.date_from, strftime(now + ScheduledAhead))
    ELSE GetDate(ev.date_from, strftime(now + FinishedBack))
DateFrom(ev, status, now) ==
    IF status = "SCHEDULED"
    THEN GetDate(ev.date_from, strftime(now + ScheduledAhead))
    ELSE GetDate(ev.date_from, strftime(now - FinishedBack))

DateTo(ev, status, now) ==
    IF status = "SCHEDULED"
    THEN GetDate(ev.date_to, strftime(now + ScheduledAhead))
    ELSE GetDate(ev.date_to, strftime(now))

\* lines 48-55
DatesOkFromOnly(df, dt) == strptimeOk(df)
DatesOk(df, dt) == strptimeOk(df) /\ strptimeOk(dt)

\* str.lower() on the names of the model
Lower(s) ==
    CASE s = "Arsenal" -> "arsenal"
      [] s = "ARSENAL" -> "arsenal"
      [] s = "Chelsea" -> "chelsea"
      [] s = "Arsenallll" -> "arsenallll"
      [] OTHER -> s

RosterEntries ==
    { [name |-> "Arsenal", id |-> 57],
      [name |-> "ARSENAL", id |-> 99],
      [name |-> "Chelsea", id |-> 61] }

Rosters == SeqsUpTo(RosterEntries, MaxRoster)

\* Outcomes of requests.get on the teams endpoint
LookupStatuses == {200, 429, 403, 500}
LookupOutcomes ==
    {[kind |-> "raise", status |-> 0, teams |-> <<>>]}
    \cup {[kind |-> "resp", status |-> s, teams |-> <<>>] : s \in LookupStatuses \ {200}}
    \cup {[kind |-> "badjson", status |-> 200, teams |-> <<>>]}
    \cup {[kind |-> "resp", status |-> 200, teams |-> r] : r \in Rosters}

\* the loop of get_team_id, lines 19-21: index of the first matching entry, 0 if none
FirstMatchLast(teams, team_name) ==
    LET hits == {i \in 1..Len(teams) : Lower(teams[i].name) = Lower(team_name)}
    IN  IF hits = {} THEN 0 ELSE CHOOSE i \in hits : \A j \in hits : j <= i
FirstMatch(teams, team_name) ==
    LET hits == {i \in 1..Len(teams) : Lower(teams[i].name) = Lower(team_name)}
    IN  IF hits = {} THEN 0 ELSE CHOOSE i \in hits : \A j \in hits : i <= j

\* get_team_id: "id" with the id, "ValueError" or "Exception"
get_team_id(team_name, out) ==
    IF out.kind = "raise" THEN [r |-> "Exception", id |-> 0]
    ELSE IF out.status # 200 THEN [r |-> "Exception", id |-> 0]
    ELSE IF out.kind = "badjson" THEN [r |-> "ValueError", id |-> 0]
    ELSE LET i == FirstMatch(out.teams, team_name)
         IN  IF i = 0 THEN [r |-> "ValueError", id |-> 0]
             ELSE [r |-> "id", id |-> out.teams[i].id]

\* lines 71-80: the status returned when get_team_id raises
TeamFailureCodePassThrough(r, out) ==
    IF r = "ValueError" THEN 404 ELSE IF out.kind = "resp" THEN out.status ELSE 500
TeamFailureCode(r, out) == IF r = "ValueError" THEN 404 ELSE 500

CompetitionUrl == [scope |-> "competition", id |-> 0]
TeamUrl(team_id) == [scope |-> "team", id |-> team_id]

\* Upstream matches.  winner is the value of match['score']['winner']:
\* a code, NULL for JSON null, MISSING when the key is not in the object.
NULL == "<null>"
MISSING == "<missing>"
WinnerCodes == {"HOME_TEAM", "AWAY_TEAM", "DRAW", "REFEREE", NULL, MISSING}

UpMatch(st, w, v) ==
    [utcDate |-> "2024-05-01T15:00:00Z", venue |-> v, home |-> "Arsenal", away |-> "Chelsea",
     status |-> st, winner |-> w, ftHome |-> 2, ftAway |-> 1]

UpstreamMatches ==
    {UpMatch("FINISHED", w, "Emirates") : w \in WinnerCodes}
    \cup {UpMatch("SCHEDULED", "HOME_TEAM", "Emirates"), UpMatch("SCHEDULED", NULL, ABSENT)}

Bodies == SeqsUpTo(UpstreamMatches, MaxMatches)

FetchStatuses == {200, 429, 403, 404, 500}
FetchOutcomes ==
    {[kind |-> "raise", status |-> 0, matches |-> <<>>]}
    \cup {[kind |-> "resp", status |-> s, matches |-> <<>>] : s \in FetchStatuses \ {200}}
    \cup {[kind |-> "resp", status |-> 200, matches |-> b] : b \in Bodies}

\* lines 122-130
Winner(m) ==
    IF m.winner = "HOME_TEAM" THEN m.home
    ELSE IF m.winner = "AWAY_TEAM" THEN m.away
    ELSE IF m.winner = "DRAW" THEN "draw"
    ELSE "unknown"

\* lines 109-114
BaseRecord(m) ==
    [match_date |-> m.utcDate,
     venue |-> GetStr(m.venue, "Unknown"),
     home_team |-> m.home,
     away_team |-> m.away]

\* lines 109-131: the record appended for one match
FormatMatch(m) ==
    IF m.status = "FINISHED"
    THEN [match_date |-> m.utcDate, venue |-> GetStr(m.venue, "Unknown"),
          home_team |-> m.home, away_team |-> m.away,
          score |-> [home |-> m.ftHome, away |-> m.ftAway], winner |-> Winner(m)]
    ELSE BaseRecord(m)

\* match['score']['winner'] raises KeyError when the key is missing
FormatRaises(matches) ==
    \E i \in 1..Len(matches) :
        matches[i].status = "FINISHED" /\ matches[i].winner = MISSING

\* lines 107-131
FormatMatches(matches) == [i \in 1..Len(matches) |-> FormatMatch(matches[i])]

\* line 90: the response that is retried
ShouldRetryAnyError(status) == status # 200
ShouldRetry(status) == status = 429

\* time.sleep(2 ** attempt)
Backoff(attempt) == 2 ^ attempt

MQReturn(code, matches, err) ==
    [kind |-> "return", statusCode |-> code, matches |-> matches, error |-> err]

MQInit == [status |-> "", date_from |-> AbsentDate, date_to |-> AbsentDate,
           url |-> CompetitionUrl, attempt |-> 0, matches |-> <<>>]

\* The platform invokes the handler with an event
MQ_Receive ==
    /\ pc = "idle"
    /\ \E ev \in MQEvents, now \in Todays :
        /\ event' = ev
        /\ today' = now
    /\ handler' = "MQ"
    /\ pc' = "mq_validate"
    /\ UNCHANGED <<mq, ci, cr, log, response>>

\* lines 27-62: status, default dates, date format, empty input
MQ_Validate ==
    /\ pc = "mq_validate"
    /\ LET status == GetStr(event.status, "SCHEDULED")
           df == DateFrom(event, status, today)
           dt == DateTo(event, status, today)
       IN  IF ~ValidStatus(status)
           THEN /\ response' = MQReturn(400, <<>>, "Invalid status")
                /\ pc' = "done"
                /\ mq' = mq
           ELSE IF ~DatesOk(df, dt)
           THEN /\ response' = MQReturn(400, <<>>, "Invalid date format")
                /\ pc' = "done"
                /\ mq' = [mq EXCEPT !.status = status, !.date_from = df, !.date_to = dt]
           ELSE IF EventEmpty(event)
           THEN /\ response' = MQReturn(200, <<>>, "")
                /\ pc' = "done"
                /\ mq' = [mq EXCEPT !.status = status, !.date_from = df, !.date_to = dt]
           ELSE /\ response' = response
                /\ pc' = "mq_team"
                /\ mq' = [mq EXCEPT !.status = status, !.date_from = df, !.date_to = dt]
    /\ UNCHANGED <<handler, event, today, ci, cr, log>>

\* lines 64-82: endpoint selection, with the roster lookup of get_team_id
MQ_Team ==
    /\ pc = "mq_team"
    /\ IF event.team # ABSENT /\ event.team # ""
       THEN \E out \in LookupOutcomes :
              LET r == get_team_id(event.team, out)
              IN  /\ log' = Append(log, [op |-> "lookup", out |-> out])
                  /\ IF r.r = "id"
                     THEN /\ mq' = [mq EXCEPT !.url = TeamUrl(r.id)]
                          /\ pc' = "mq_fetch"
                          /\ response' = response
                     ELSE /\ mq' = mq
                          /\ pc' = "done"
                          /\ response' = MQReturn(TeamFailureCode(r.r, out), <<>>,
                                                  IF r.r = "ValueError" THEN "Team not found"
                                                  ELSE "Failed to fetch team ID")
       ELSE /\ mq' = [mq EXCEPT !.url = CompetitionUrl]
            /\ pc' = "mq_fetch"
            /\ UNCHANGED <<log, response>>
    /\ UNCHANGED <<handler, event, today, ci, cr>>

\* lines 88-98: one attempt of the retry loop; lines 105-141 after the break:
\* the matches of the 200 response are reshaped and returned
MQ_Fetch ==
    /\ pc = "mq_fetch"
    /\ \E out \in FetchOutcomes :
        /\ log' = Append(log, [op |-> "fetch", url |-> mq.url, status |-> mq.status,
                               dateFrom |-> mq.date_from, dateTo |-> mq.date_to, out |-> out])
        /\ IF out.kind = "raise"
           THEN /\ response' = MQReturn(500, <<>>, "Internal server error")
                /\ pc' = "done"
                /\ mq' = mq
           ELSE IF ShouldRetry(out.status)
           THEN /\ pc' = "mq_sleep"
                /\ UNCHANGED <<mq, response>>
           ELSE IF out.status # 200
           THEN /\ response' = MQReturn(out.status, <<>>, "API request failed")
                /\ pc' = "done"
                /\ mq' = mq
           ELSE /\ mq' = [mq EXCEPT !.matches = out.matches]
                /\ pc' = "done"
                /\ response' = IF FormatRaises(out.matches)
                               THEN MQReturn(500, <<>>, "Internal server error")
                               ELSE MQReturn(200, FormatMatches(out.matches), "")
    /\ UNCHANGED <<handler, event, today, ci, cr>>

\* lines 91-92 and 99-103: the sleep after a 429, then the next attempt or
\* the else branch of the loop
MQ_Backoff ==
    /\ pc = "mq_sleep"
    /\ log' = Append(log, [op |-> "sleep", secs |-> Backoff(mq.attempt)])
    /\ IF mq.attempt + 1 < MaxAttempts
       THEN /\ mq' = [mq EXCEPT !.attempt = mq.attempt + 1]
            /\ pc' = "mq_fetch"
            /\ response' = response
       ELSE /\ mq' = mq
            /\ response' = MQReturn(429, <<>>, "API rate limit exceeded after retries")
            /\ pc' = "done"
    /\ UNCHANGED <<handler, event, today, ci, cr>>

(***************************************************************************)
(* ContractInvoker: src/lambda functions/SmartContractInteractor.py        *)
(***************************************************************************)
\* names of the functions of CONTRACT_ABI
ContractFunctions == {"resolveMarket", "createMarket"}

ParamEntries ==
    {[name |-> "functionName", value |-> v] : v \in {"", "resolveMarket", "burn"}}
    \cup {[name |-> "arguments", value |-> v] : v \in {"[]", "7", "{oops"}}

CIEvents ==
    [actionGroup : {"OracleActions", "YourActionGroup"},
     apiPath : {ABSENT, "/invoke", "/yourApiPath"},
     httpMethod : {"POST", "GET"},
     parameters : SeqsUpTo(ParamEntries, MaxParams)]

\* {p['name']: p['value'] for p in parameters}.get(name): the last entry wins
Param(parameters, name) ==
    LET hits == {i \in 1..Len(parameters) : parameters[i].name = name}
    IN  IF hits = {} THEN ABSENT
        ELSE parameters[CHOOSE i \in hits : \A j \in hits : j <= i].value

\* json.loads on the argument strings of the model
JsonLoads(s) ==
    CASE s = "[]" -> "list"
      [] s = "7" -> "scalar"
      [] OTHER -> "JSONDecodeError"

\* `not function_to_call`
NoFunctionName(f) == f = ABSENT \/ f = ""

\* getattr(contract.functions, function_to_call)
HasFunction(f) == f \in ContractFunctions

\* build_response, lines 66-78
build_response(body, status_code) ==
    [kind |-> "return",
     actionGroup |-> "YourActionGroup",
     apiPath |-> "/yourApiPath",
     httpMethod |-> "POST",
     httpStatusCode |-> status_code,
     body |-> body]

CIBody(status, message, tx_hash) ==
    [status |-> status, message |-> message, tx_hash |-> tx_hash]

CIErrorDefaultStatus(message) == build_response(CIBody("ERROR", message, ""), 200)
CIError(message) == build_response(CIBody("ERROR", message, ""), 500)

CIInit == [function_to_call |-> ABSENT, function_args |-> "list"]

CI_Receive ==
    /\ pc = "idle"
    /\ \E ev \in CIEvents : event' = ev
    /\ handler' = "CI"
    /\ pc' = "ci_parse"
    /\ UNCHANGED <<today, mq, ci, cr, log, response>>

\* lines 30-38: everything before the try block
CI_Parse ==
    /\ pc = "ci_parse"
    /\ LET f == Param(event.parameters, "functionName")
           a == JsonLoads(GetStr(Param(event.parameters, "arguments"), "[]"))
       IN  IF event.apiPath = ABSENT \/ a = "JSONDecodeError"
           THEN /\ response' = Raised
                /\ pc' = "done"
                /\ ci' = ci
           ELSE IF NoFunctionName(f)
           THEN /\ response' = build_response(CIBody("", "Function name not specified.", ""), 400)
                /\ pc' = "done"
                /\ ci' = [function_to_call |-> f, function_args |-> a]
           ELSE /\ response' = response
                /\ pc' = "ci_key"
                /\ ci' = [function_to_call |-> f, function_args |-> a]
    /\ UNCHANGED <<handler, event, today, mq, cr, log>>

\* One step of the try block: the call is made, and its failure is the
\* exception caught at lines 62-64
CIStep(here, op, mayFail, mustFail, next) ==
    /\ pc = here
    /\ \E ok \in BOOLEAN :
        /\ ok => ~mustFail
        /\ ~ok => mayFail
        /\ log' = Append(log, [op |-> op, ok |-> ok])
        /\ IF ok
           THEN /\ pc' = next
                /\ response' = response
           ELSE /\ pc' = "done"
                /\ response' = CIError(op)
    /\ UNCHANGED <<handler, event, today, mq, ci, cr>>

\* lines 41-42: get_oracle_key and account.from_key
CI_Key == CIStep("ci_key", "get_oracle_key", TRUE, FALSE, "ci_nonce")

\* line 43
CI_Nonce == CIStep("ci_nonce", "get_transaction_count", TRUE, FALSE, "ci_lookup")

\* line 46
CI_Lookup ==
    CIStep("ci_lookup", "getattr", ~HasFunction(ci.function_to_call),
           ~HasFunction(ci.function_to_call), "ci_build")

\* lines 49-55: *function_args raises TypeError unless the arguments are a list
CI_Build ==
    CIStep("ci_build", "build_transaction", TRUE, ci.function_args # "list", "ci_sign")

\* line 57
CI_Sign == CIStep("ci_sign", "sign_transaction", TRUE, FALSE, "ci_send")

\* lines 58-64
CI_Send ==
    /\ pc = "ci_send"
    /\ \E ok \in BOOLEAN :
        /\ log' = Append(log, [op |-> "send_raw_transaction", ok |-> ok])
        /\ response' = IF ok THEN build_response(CIBody("SUCCESS", "", "0xabc"), 200)
                             ELSE CIError("send_raw_transaction")
    /\ pc' = "done"
    /\ UNCHANGED <<handler, event, today, mq, ci, cr>>

(***************************************************************************)
(* ChatRelay: src/lambda functions/lambda_function.py                      *)
(***************************************************************************)
\* message['chat'] and message['from']: the key is absent, the value is not
\* an object (indexing it raises TypeError), the object has no 'id', or the
\* object carries the id given
ChatValues == {"absent", "scalar", "noid", "42"}
FromValues == {"absent", "scalar", "noid", "7"}
TextValues == {ABSENT, "", "hi"}

\* body.get('message'): absent, null, a non-empty string, or an object
Messages ==
    {[k |-> kk, chat |-> "absent", from |-> "absent", text |-> ABSENT] :
        kk \in {"absent", "null", "string"}}
    \cup [k : {"object"}, chat : ChatValues, from : FromValues, text : TextValues]

NoMessage == [k |-> "absent", chat |-> "absent", from |-> "absent", text |-> ABSENT]

\* event['body']: key absent, None, a string that is not JSON, the JSON of a
\* list, or the JSON of an object
CREvents ==
    {[body |-> b, message |-> NoMessage] : b \in {"absent", "none", "badjson", "list"}}
    \cup [body : {"object"}, message : Messages]

\* events of response['completion']
Payloads == {<<>>, <<"a">>, <<"b">>}
StreamEvents ==
    {[k |-> "chunk", bytes |-> b] : b \in Payloads}
    \cup {[k |-> "trace", bytes |-> <<>>], [k |-> "bad", bytes |-> <<>>]}
Streams == SeqsUpTo(StreamEvents, MaxChunks)

PostOutcomes == {"ok", "http_error", "raise"}

TextOnlyNotice == <<"I can only understand text messages.">>
ApologyNotice == <<"Sorry, I'm having trouble thinking right now. Please try again later.">>

CRReturn(code, body) == [kind |-> "return", statusCode |-> code, body |-> body]

\* requests.post(TELEGRAM_API_URL, json=...)
Post(chat_id, text, parse_mode, out) ==
    [op |-> "post", chat_id |-> chat_id, text |-> text, parse_mode |-> parse_mode, out |-> out]

\* lines 75-77: the loop over the events; a malformed chunk raises
RECURSIVE Assemble(_)
Assemble(stream) ==
    IF stream = <<>> THEN <<>>
    ELSE IF Head(stream).k = "chunk" THEN Head(stream).bytes \o Assemble(Tail(stream))
    ELSE Assemble(Tail(stream))

AssembleRaises(stream) == \E i \in 1..Len(stream) : stream[i].k = "bad"

CRInit == [chat_id |-> "", user_id |-> "", text_from_user |-> "", stream |-> <<>>,
           agent_response_text |-> <<>>]

CR_Receive ==
    /\ pc = "idle"
    /\ \E ev \in CREvents : event' = ev
    /\ handler' = "CR"
    /\ pc' = "cr_parse"
    /\ UNCHANGED <<today, mq, ci, cr, log, response>>

\* lines 27-37
CR_Parse ==
    /\ pc = "cr_parse"
    /\ IF event.body \in {"none", "list"}
       THEN /\ response' = Raised
            /\ pc' = "done"
       ELSE IF event.body = "badjson"
       THEN /\ response' = CRReturn(400, "Invalid JSON")
            /\ pc' = "done"
       ELSE IF event.body = "absent" \/ event.message.k \in {"absent", "null"}
       THEN /\ response' = CRReturn(200, "Not a message update")
            /\ pc' = "done"
       ELSE /\ response' = response
            /\ pc' = "cr_extract"
    /\ UNCHANGED <<handler, event, today, mq, ci, cr, log>>

\* lines 41-45: the order in which the fields of the message are read:
\* "TypeError" leaves the handler, "KeyError" is caught at line 50
ExtractResultTextFirst(m) ==
    IF m.k = "string" \/ m.chat = "scalar" THEN "TypeError"
    ELSE IF m.chat \in {"absent", "noid"} THEN "KeyError"
    ELSE IF GetStr(m.text, "") = "" THEN "notext"
    ELSE IF m.from = "scalar" THEN "TypeError"
    ELSE IF m.from \in {"absent", "noid"} THEN "KeyError"
    ELSE "ok"
ExtractResult(m) ==
    IF m.k = "string" \/ m.chat = "scalar" THEN "TypeError"
    ELSE IF m.chat \in {"absent", "noid"} THEN "KeyError"
    ELSE IF m.from = "scalar" THEN "TypeError"
    ELSE IF m.from \in {"absent", "noid"} THEN "KeyError"
    ELSE IF GetStr(m.text, "") = "" THEN "notext"
    ELSE "ok"

\* lines 40-52
CR_Extract ==
    /\ pc = "cr_extract"
    /\ LET m == event.message
           x == ExtractResult(m)
       IN  IF x = "TypeError"
           THEN /\ response' = Raised
                /\ pc' = "done"
                /\ UNCHANGED <<cr, log>>
           ELSE IF x = "KeyError"
           THEN /\ response' = CRReturn(400, "Malformed Telegram message")
                /\ pc' = "done"
                /\ UNCHANGED <<cr, log>>
           ELSE IF x = "notext"
           THEN \E out \in PostOutcomes :
                  /\ log' = Append(log, Post(m.chat, TextOnlyNotice, "", out))
                  /\ response' = IF out = "raise" THEN Raised
                                 ELSE CRReturn(200, "Non-text message received")
                  /\ pc' = "done"
                  /\ cr' = [cr EXCEPT !.chat_id = m.chat, !.user_id = m.from]
           ELSE /\ cr' = [cr EXCEPT !.chat_id = m.chat, !.user_id = m.from,
                                    !.text_from_user = m.text]
                /\ pc' = "cr_invoke"
                /\ UNCHANGED <<log, response>>
    /\ UNCHANGED <<handler, event, today, mq, ci>>

InvokeEntry(session, text, ok) ==
    [op |-> "invoke_agent", sessionId |-> session, inputText |-> text, ok |-> ok]

\* lines 57-68
CR_Invoke ==
    /\ pc = "cr_invoke"
    /\ \/ \E stream \in Streams :
            /\ log' = Append(log, InvokeEntry(cr.user_id, cr.text_from_user, TRUE))
            /\ cr' = [cr EXCEPT !.stream = stream]
            /\ pc' = "cr_consume"
            /\ response' = response
       \/ \E out \in PostOutcomes :
            /\ log' = log \o <<InvokeEntry(cr.user_id, cr.text_from_user, FALSE),
                               Post(cr.chat_id, ApologyNotice, "", out)>>
            /\ response' = IF out = "raise" THEN Raised
                           ELSE CRReturn(500, "Agent invocation error")
            /\ pc' = "done"
            /\ cr' = cr
    /\ UNCHANGED <<handler, event, today, mq, ci>>

\* lines 70-80
CR_Consume ==
    /\ pc = "cr_consume"
    /\ IF AssembleRaises(cr.stream)
       THEN /\ response' = CRReturn(500, "Agent response processing error")
            /\ pc' = "done"
            /\ cr' = cr
       ELSE /\ cr' = [cr EXCEPT !.agent_response_text = Assemble(cr.stream)]
            /\ pc' = "cr_reply"
            /\ response' = response
    /\ UNCHANGED <<handler, event, today, mq, ci, log>>

\* lines 82-94
CR_Reply ==
    /\ pc = "cr_reply"
    /\ IF cr.agent_response_text # <<>>
       THEN \E out \in PostOutcomes :
              /\ log' = Append(log, Post(cr.chat_id, cr.agent_response_text, "Markdown", out))
              /\ response' = IF out = "raise" THEN Raised
                             ELSE CRReturn(200, "Message processed successfully")
       ELSE /\ log' = log
            /\ response' = CRReturn(200, "Message processed successfully")
    /\ pc' = "done"
    /\ UNCHANGED <<handler, event, today, mq, ci, cr>>

(***************************************************************************)
(* AgentTrigger: src/lambda functions/dailyMarketCreatorTrigger.py         *)
(***************************************************************************)
AT_Receive ==
    /\ pc = "idle"
    /\ handler' = "AT"
    /\ pc' = "at_invoke"
    /\ UNCHANGED <<event, today, mq, ci, cr, log, response>>

\* lines 11-18
AT_Invoke ==
    /\ pc = "at_invoke"
    /\ \E ok \in BOOLEAN :
        /\ log' = Append(log, InvokeEntry("daily-market-creation-task",
                                          "run daily market creation", ok))
        /\ response' = IF ok THEN [kind |-> "return", statusCode |-> 200] ELSE Raised
    /\ pc' = "done"
    /\ UNCHANGED <<handler, event, today, mq, ci, cr>>

MQEmptyEvent ==
    [status |-> ABSENT, date_from |-> AbsentDate, date_to |-> AbsentDate,
     team |-> ABSENT, extra |-> FALSE]

Init ==
    /\ handler = "none"
    /\ pc = "idle"
    /\ event = MQEmptyEvent
    /\ today = 0
    /\ mq = MQInit
    /\ ci = CIInit
    /\ cr = CRInit
    /\ log = <<>>
    /\ response = NoResponse

Next ==
    \/ MQ_Receive
    \/ MQ_Validate
    \/ MQ_Team
    \/ MQ_Fetch
    \/ MQ_Backoff
    \/ CI_Receive
    \/ CI_Parse
    \/ CI_Key
    \/ CI_Nonce
    \/ CI_Lookup
    \/ CI_Build
    \/ CI_Sign
    \/ CI_Send
    \/ CR_Receive
    \/ CR_Parse
    \/ CR_Extract
    \/ CR_Invoke
    \/ CR_Consume
    \/ CR_Reply
    \/ AT_Receive
    \/ AT_Invoke

Spec == Init /\ [][Next]_vars

(***************************************************************************)
(* Properties.                                                             *)
(***************************************************************************)
Done == pc = "done"
Returned == response.kind = "return"

Idx(op) == {i \in 1..Len(log) : log[i].op = op}
Count(op) == Cardinality(Idx(op))

\* the delays slept so far, in order
RECURSIVE DelaysOf(_)
DelaysOf(l) ==
    IF l = <<>> THEN <<>>
    ELSE IF Head(l).op = "sleep" THEN <<Head(l).secs>> \o DelaysOf(Tail(l))
    ELSE DelaysOf(Tail(l))
Delays == DelaysOf(log)

\* the statuses answered to the match fetches so far, in order (0: the call raised)
RECURSIVE FetchStatusesOf(_)
FetchStatusesOf(l) ==
    IF l = <<>> THEN <<>>
    ELSE IF Head(l).op = "fetch" THEN <<Head(l).out.status>> \o FetchStatusesOf(Tail(l))
    ELSE FetchStatusesOf(Tail(l))
Answers == FetchStatusesOf(log)

\* C1: when the match fetch answers 429 on three consecutive attempts, the
\* handler has made exactly 3 attempts, the delays of the whole invocation
\* are 1s then 2s with none after the last attempt, and it returns 429.
C1_ThreeRateLimitsBackoff ==
    (handler = "MQ" /\ Done /\ Answers = <<429, 429, 429>>)
        => /\ Count("fetch") = 3
           /\ Delays = <<1, 2>>
           /\ Returned /\ response.statusCode = 429

\* C2: when the match fetch answers 429 on the first k attempts (k in 0..2)
\* and 200 on attempt k+1, the handler returns 200 with one reshaped record
\* per match of that response, after exactly k+1 attempts and the k delays
\* 1s, 2s.
C2_SuccessAfterRetries ==
    \A k \in 0..2 :
        (handler = "MQ" /\ Done /\ Answers = [i \in 1..(k + 1) |-> IF i <= k THEN 429 ELSE 200])
            => /\ Returned /\ response.statusCode = 200
               /\ Len(response.matches) = Len(mq.matches)
               /\ Count("fetch") = k + 1
               /\ Delays = [i \in 1..k |-> 2 ^ (i - 1)]

\* C3: a query whose status is neither SCHEDULED nor FINISHED, or one of whose
\* supplied dates is not a YYYY-MM-DD string, never causes an outbound call
\* and is answered 400, whatever its other fields.
BadQuery ==
    \/ event.status \notin {ABSENT, "SCHEDULED", "FINISHED"}
    \/ event.date_from = JunkDate
    \/ event.date_to = JunkDate

NamedFunction == Param(event.parameters, "functionName")
OkBefore(op, i) == \E j \in 1..(i - 1) : log[j].op = op /\ log[j].ok

C4_UnknownFunctionError ==
    (handler = "CI" /\ Done)
        => /\ (NamedFunction \notin ContractFunctions \cup {ABSENT, ""})
                => /\ Returned
                   /\ response.body.status = "ERROR"
                   /\ response.httpStatusCode = 500
                   /\ Count("send_raw_transaction") = 0
           /\ \A i \in Idx("send_raw_transaction") :
                OkBefore("getattr", i) /\ OkBefore("build_transaction", i)
                    /\ OkBefore("sign_transaction", i)

\* C5: a request without functionName (absent or empty) is answered 400 with
\* no outbound call of any kind, for every value of the other parameters.
C5_NoFunctionName400 ==
    (handler = "CI" /\ Done /\ NamedFunction \in {ABSENT, ""})
        => /\ Returned /\ response.httpStatusCode = 400
           /\ log = <<>>

\* C6: every invocation of MatchQueryHandler, ContractInvoker and ChatRelay
\* ends by returning a response with a status code: no exception leaves the
\* handler.
C6_NoExceptionEscapes ==
    (handler \in {"MQ", "CI", "CR"} /\ Done) => Returned

\* C7: with a function name present, the response is SUCCESS with the hash
\* and 200 exactly when all six steps succeeded; a failed step yields ERROR
\* with its message and 500 and is the last step made.
CISteps ==
    <<"get_oracle_key", "get_transaction_count", "getattr", "build_transaction",
      "sign_transaction", "send_raw_transaction">>

IsSuccess ==
    /\ Returned
    /\ response.body.status = "SUCCESS"
    /\ response.body.tx_hash = "0xabc"
    /\ response.httpStatusCode = 200

C7_SuccessIffAllSteps ==
    (handler = "CI" /\ NamedFunction \notin {ABSENT, ""})
        => /\ Len(log) <= Len(CISteps)
           /\ \A i \in 1..Len(log) :
                /\ log[i].op = CISteps[i]
                /\ ~log[i].ok
                    => /\ i = Len(log)
                       /\ Done /\ Returned
                       /\ response.body.status = "ERROR"
                       /\ response.body.message = log[i].op
                       /\ response.httpStatusCode = 500
           /\ Done =>
                (IsSuccess <=> (Len(log) = Len(CISteps) /\ \A i \in 1..Len(log) : log[i].ok))

C7_Witness ==
    /\ handler = "CI" /\ Done
    /\ NamedFunction = "resolveMarket"
    /\ Len(log) = 5 /\ ~log[5].ok
    /\ response.httpStatusCode = 500

\* C8: every response of ContractInvoker echoes the action group, api path
\* and http method of its request.
C8_ResponseEchoesRequest ==
    (handler = "CI" /\ Done /\ Returned)
        => /\ response.actionGroup = event.actionGroup
           /\ response.apiPath = event.apiPath
           /\ response.httpMethod = event.httpMethod

\* C9: with a team name the roster lookup precedes every match fetch; no
\* case-insensitive match gives 404 and a failed lookup call 500, both
\* without any match fetch; otherwise every fetch goes to the team endpoint
\* of the first matching entry.  Without a team name there is no lookup and
\* every fetch goes to the competition endpoint.
TeamNamed == event.team \notin {ABSENT, ""}
Matches(entry) == Lower(entry.name) = Lower(event.team)

C9_TeamResolution ==
    handler = "MQ"
        => /\ ~TeamNamed
                => /\ Count("lookup") = 0
                   /\ \A i \in Idx("fetch") : log[i].url = [scope |-> "competition", id |-> 0]
           /\ TeamNamed
                => /\ Idx("lookup") \subseteq {1}
                   /\ Idx("fetch") # {} => Idx("lookup") = {1}
                   /\ pc \in {"mq_fetch", "mq_sleep"} => Idx("lookup") = {1}
           /\ Idx("lookup") # {}
                => LET out == log[1].out
                       teams == out.teams
                   IN  /\ (out.kind = "resp" /\ out.status # 200)
                            => /\ Count("fetch") = 0
                               /\ Done /\ Returned /\ response.statusCode = 500
                       /\ (out.kind = "resp" /\ out.status = 200
                                /\ \A j \in 1..Len(teams) : ~Matches(teams[j]))
                            => /\ Count("fetch") = 0
                               /\ Done /\ Returned /\ response.statusCode = 404
                       /\ \A j \in 1..Len(teams) :
                            (out.kind = "resp" /\ out.status = 200 /\ Matches(teams[j])
                                /\ \A h \in 1..(j - 1) : ~Matches(teams[h]))
                            => /\ Done => Count("fetch") >= 1
                               /\ \A i \in Idx("fetch") :
                                    log[i].url = [scope |-> "team", id |-> teams[j].id]

C9_Witness ==
    /\ handler = "MQ" /\ Done
    /\ event.team = "arsenal"
    /\ Len(log) >= 2
    /\ log[1].op = "lookup"
    /\ log[1].out.teams = <<[name |-> "ARSENAL", id |-> 99], [name |-> "Arsenal", id |-> 57]>>
    /\ log[2].op = "fetch"
    /\ log[2].url = [scope |-> "team", id |-> 99]

\* C10: the reshaped list has one record per upstream match, in order; a
\* record carries score and winner exactly when its match is FINISHED, and
\* the winner is the home name for HOME_TEAM, the away name for AWAY_TEAM,
\* "draw" for DRAW and "unknown" for any other code and for an absent code.
ExpectedWinner(m) ==
    CASE m.winner = "HOME_TEAM" -> m.home
      [] m.winner = "AWAY_TEAM" -> m.away
      [] m.winner = "DRAW" -> "draw"
      [] OTHER -> "unknown"

C10_Reshaping ==
    (handler = "MQ" /\ Done /\ Answers # <<>> /\ Answers[Len(Answers)] = 200)
        => /\ Returned /\ response.statusCode = 200
           /\ Len(response.matches) = Len(mq.matches)
           /\ \A i \in 1..Len(mq.matches) :
                LET m == mq.matches[i]
                    r == response.matches[i]
                IN  /\ r.match_date = m.utcDate
                    /\ r.home_team = m.home
                    /\ r.away_team = m.away
                    /\ ("score" \in DOMAIN r) <=> (m.status = "FINISHED")
                    /\ ("winner" \in DOMAIN r) <=> (m.status = "FINISHED")
                    /\ m.status = "FINISHED"
                        => /\ r.winner = ExpectedWinner(m)
                           /\ r.score = [home |-> m.ftHome, away |-> m.ftAway]

\* C11: a match-fetch response whose status is neither 200 nor 429 ends the
\* invocation at once, on whichever attempt it arrives: it is the last
\* entry of the log (no later fetch, no later delay) and the handler has
\* returned the upstream status.
C11_UpstreamErrorEndsInvocation ==
    handler = "MQ"
        => \A i \in Idx("fetch") :
            (log[i].out.kind = "resp" /\ log[i].out.status \notin {200, 429})
                => /\ i = Len(log)
                   /\ Done /\ Returned
                   /\ response.statusCode = log[i].out.status

C11_Witness ==
    /\ handler = "MQ" /\ Done
    /\ Answers = <<429, 429, 403>>
    /\ Delays = <<1, 2>>
    /\ response.statusCode = 403

\* C12: the status code of every response returned by any handler is one of
\* 200, 400, 404, 429, 500.
StatusCodes == {200, 400, 404, 429, 500}
StatusCode == IF handler = "CI" THEN response.httpStatusCode ELSE response.statusCode

C12_StatusCodesClosed ==
    (Done /\ Returned) => StatusCode \in StatusCodes

\* C12 (amended): the status code of every returned response is one of 200,
\* 400, 404, 429, 500, or it is the upstream status of the match-fetch
\* response, neither 200 nor 429, that ended MatchQueryHandler's invocation.
C12_StatusCodesOrUpstream ==
    (Done /\ Returned)
        => \/ StatusCode \in StatusCodes
           \/ /\ handler = "MQ"
              /\ log # <<>>
              /\ log[Len(log)].op = "fetch"
              /\ log[Len(log)].out.kind = "resp"
              /\ log[Len(log)].out.status \notin {200, 429}
              /\ StatusCode = log[Len(log)].out.status

C12_Witness ==
    /\ handler = "MQ" /\ Done /\ Returned
    /\ Answers = <<403>>
    /\ response.statusCode = 403

\* C13: a webhook body without a message key is answered 200 with no
\* outbound call; a message with chat id and sender id but no text (or an
\* empty text) causes exactly one sendMessage post, carrying the text-only
\* notice to that chat, no agent invocation, and is answered 200.
NoMessageKey ==
    event.body = "absent" \/ (event.body = "object" /\ event.message.k = "absent")

NonTextMessage ==
    /\ event.body = "object"
    /\ event.message.k = "object"
    /\ event.message.chat = "42"
    /\ event.message.from = "7"
    /\ event.message.text \in {ABSENT, ""}

C13_NonTextHandling ==
    (handler = "CR" /\ Done)
        => /\ NoMessageKey
                => /\ log = <<>>
                   /\ Returned /\ response.statusCode = 200
           /\ NonTextMessage
                => /\ Len(log) = 1
                   /\ log[1].op = "post"
                   /\ log[1].chat_id = event.message.chat
                   /\ log[1].text = TextOnlyNotice
                   /\ Returned /\ response.statusCode = 200

\* C14: on every failure path of ChatRelay after the chat id was extracted
\* (agent invocation failure, failure while consuming the chunks), a notice
\* has been posted to the originating chat before the 500 is returned.
C14_FailureNoticePosted ==
    (handler = "CR" /\ Done /\ Returned /\ response.statusCode = 500)
        => \E i \in Idx("post") : log[i].chat_id = event.message.chat

\* C15: when the agent invocation and the consumption of the chunks both
\* succeed, the assembled text is the concatenation of the chunk payloads
\* in delivery order; it is posted exactly once, with Markdown, to the
\* originating chat if it is not empty, nothing is posted if it is empty,
\* and the handler returns 200 in both cases.
RECURSIVE ChunkText(_, _)
ChunkText(stream, n) ==
    IF n = 0 THEN <<>>
    ELSE ChunkText(stream, n - 1) \o (IF stream[n].k = "chunk" THEN stream[n].bytes ELSE <<>>)

Consumed == pc \in {"cr_reply", "done"} /\ Count("invoke_agent") = 1 /\ log[1].ok
               /\ \A i \in 1..Len(cr.stream) : cr.stream[i].k # "bad"

C15_ReplyAssembled ==
    (handler = "CR" /\ Consumed)
        => LET text == ChunkText(cr.stream, Len(cr.stream))
           IN  /\ cr.agent_response_text = text
               /\ Done
                    => /\ Returned /\ response.statusCode = 200
                       /\ text = <<>> => Count("post") = 0
                       /\ text # <<>>
                            => /\ Idx("post") = {2}
                               /\ log[2].text = text
                               /\ log[2].parse_mode = "Markdown"
                               /\ log[2].chat_id = event.message.chat

\* C16: whenever ChatRelay returns 400 no outbound call has been made; a
\* body that is not JSON and a message without chat id or without sender
\* id are answered 400, also when the message lacks the text as well.
MissingIds ==
    /\ event.body = "object"
    /\ event.message.k = "object"
    /\ \/ event.message.chat \in {"absent", "noid"}
       \/ event.message.chat = "42" /\ event.message.from \in {"absent", "noid"}

C16_BadRequestNoCall ==
    (handler = "CR" /\ Done)
        => /\ (Returned /\ response.statusCode = 400) => log = <<>>
           /\ (event.body = "badjson" \/ MissingIds)
                => /\ Returned /\ response.statusCode = 400
                   /\ log = <<>>

C16_Witness ==
    /\ handler = "CR" /\ Done
    /\ event.body = "object" /\ event.message.k = "object"
    /\ event.message.chat = "42"
    /\ event.message.from = "absent"
    /\ event.message.text = ABSENT
    /\ Returned /\ response.statusCode = 400
    /\ log = <<>>

\* C17: only the match fetch is repeated: it is issued at most 3 times and
\* each repetition follows a 429 answer to the attempt before it; the
\* roster lookup, the transaction-count fetch, the transaction submission
\* and the agent invocation are issued at most once per invocation.
PreviousFetch(i) == CHOOSE j \in Idx("fetch") : j < i /\ \A h \in Idx("fetch") : h < i => h <= j

C17_OnlyFetchRetried ==
    /\ Count("fetch") <= 3
    /\ \A i \in Idx("fetch") :
         (\E j \in Idx("fetch") : j < i)
            => /\ log[PreviousFetch(i)].out.kind = "resp"
               /\ log[PreviousFetch(i)].out.status = 429
    /\ Count("lookup") <= 1
    /\ Count("get_transaction_count") <= 1
    /\ Count("send_raw_transaction") <= 1
    /\ Count("invoke_agent") <= 1

C17_Witness ==
    /\ handler = "MQ" /\ Done
    /\ Count("lookup") = 1
    /\ Answers = <<429, 429, 200>>
    /\ response.statusCode = 200

\* C18: the date parameters of every match fetch are the supplied dates,
\* each absent one replaced by its default: today + 5 days for both bounds
\* of a SCHEDULED query, today - 7 days and today for a FINISHED query; a
\* supplied date replaces only its own bound.  A query that names a valid
\* status and no dates does issue such a fetch.
QueryStatus == IF event.status = ABSENT THEN "SCHEDULED" ELSE event.status
DefaultFromDay == IF QueryStatus = "SCHEDULED" THEN today + 5 ELSE today - 7
DefaultToDay == IF QueryStatus = "SCHEDULED" THEN today + 5 ELSE today

C18_DefaultWindow ==
    handler = "MQ"
        => /\ \A i \in Idx("fetch") :
                /\ log[i].status = QueryStatus
                /\ log[i].dateFrom.k = "date"
                /\ log[i].dateTo.k = "date"
                /\ log[i].dateFrom.d =
                        IF event.date_from = AbsentDate THEN DefaultFromDay ELSE event.date_from.d
                /\ log[i].dateTo.d =
                        IF event.date_to = AbsentDate THEN DefaultToDay ELSE event.date_to.d
           /\ (Done /\ event.status \in {"SCHEDULED", "FINISHED"}
                    /\ event.date_from = AbsentDate /\ event.date_to = AbsentDate
                    /\ event.team \in {ABSENT, ""})
                => /\ Count("fetch") >= 1
                   /\ log[1].dateFrom.d = DefaultFromDay
                   /\ log[1].dateTo.d = DefaultToDay

C18_Witness ==
    /\ handler = "MQ" /\ Done
    /\ event.status = "FINISHED"
    /\ event.date_from = AbsentDate
    /\ event.date_to = DateStr(3)
    /\ today = 11
    /\ Count("fetch") = 1
    /\ log[1].dateFrom = DateStr(4)
    /\ log[1].dateTo = DateStr(3)

\* C19: the event without any field is answered 200 with an empty matches
\* list and no outbound call, its defaults (SCHEDULED, today + 5 days)
\* computed but never sent; every other event that passes validation and
\* team resolution issues at least one match fetch.
NoFields ==
    event = [status |-> ABSENT, date_from |-> AbsentDate, date_to |-> AbsentDate,
             team |-> ABSENT, extra |-> FALSE]

TeamResolved ==
    \/ ~TeamNamed
    \/ /\ Idx("lookup") = {1}
       /\ log[1].out.kind = "resp" /\ log[1].out.status = 200
       /\ \E j \in 1..Len(log[1].out.teams) : Matches(log[1].out.teams[j])

C19_EmptyEventNoFetch ==
    handler = "MQ"
        => /\ NoFields
                => /\ log = <<>>
                   /\ pc \in {"mq_validate", "done"}
                   /\ Done
                        => /\ Returned /\ response.statusCode = 200
                           /\ response.matches = <<>>
                           /\ mq.status = "SCHEDULED"
                           /\ mq.date_from = DateStr(today + 5)
                           /\ mq.date_to = DateStr(today + 5)
           /\ (Done /\ ~NoFields /\ ~BadQuery /\ TeamResolved)
                => Count("fetch") >= 1

C19_Witness ==
    /\ handler = "MQ" /\ Done /\ NoFields
    /\ response.statusCode = 200
    /\ mq.date_from = DateStr(today + 5)
    /\ log = <<>>

TypeOK ==
    /\ handler \in {"none", "MQ", "CI", "CR", "AT"}
    /\ response.kind \in {"none", "return", "raise"}
====
